---- MODULE Spec2Model ----
(***************************************************************************)
(* Model of two routines of apop_asst.m4.c:                                *)
(*   - apop_data_sort: in-place sort of an apop_data set by one column,    *)
(*     stepped through its permutation-application loop;                   *)
(*     the loop is also run on its own from every permutation (SpecLoop);  *)
(*   - apop_generalized_harmonic: the memoised generalized harmonic sum.   *)
(* and, as single steps, apop_text_paste (apop_asst.m4.c) and              *)
(* apop_matrix_rm_columns (the linear-algebra file).                       *)
(* Doubles are modelled by small integers plus one NaN value (sort keys)   *)
(* and by exact reduced fractions (harmonic sums).                         *)
(***************************************************************************)
EXTENDS Integers, Sequences, FiniteSets, TLC

VARIABLES data, arg, sortby, asc, height, sorted, perm, p_alloc, i, start,
          first_row_storage, pc, ret, before, resort, nalloc,
          written, stale, live,
          eses, lengths, count, precalced, hN, hs, hret, maxN, hwork, hcached,
          strings, before_text, after_text, prune, tout, tpc,
          m_in, m_use, m_out, mpc, m_in0

\* written[k] counts the writes into row slot k, stale records that a row was
\* read as a copy source after its slot had been written, and live counts
\* the scratch row copies allocated and not yet freed (history variables).
sortvars == <<data, arg, sortby, asc, height, sorted, perm, p_alloc, i, start,
              first_row_storage, pc, ret, before, resort, nalloc,
              written, stale, live>>
harmvars == <<eses, lengths, count, precalced, hN, hs, hret, maxN, hwork, hcached>>
textvars == <<strings, before_text, after_text, prune, tout, tpc>>
matvars == <<m_in, m_use, m_out, mpc, m_in0>>
vars == <<sortvars, harmvars, textvars, matvars>>

(* ---------------- bounds of the model ---------------- *)
MaxHeight == 3
MaxKey == 3
MaxN == 4
MaxText == 2
MaxCols == 2

(* ---------------- doubles used as sort keys ---------------- *)
\* GSL_NAN: the one value for which every comparison is false.
NaN == 0
Keys == (1..MaxKey) \cup {NaN}
isnan(x) == x = NaN
\* the C comparison a < b on doubles
Lt(a, b) == ~isnan(a) /\ ~isnan(b) /\ a < b
\* a <= b and a >= b on doubles
Le(a, b) == ~isnan(a) /\ ~isnan(b) /\ a <= b
Ge(a, b) == ~isnan(a) /\ ~isnan(b) /\ a >= b

(* ---------------- the apop_data table ---------------- *)
\* A row holds its vector entry (<<>> when the set has no vector), its
\* matrix row (<<>> when the set has no matrix) and its text row.
MkRow(v, m, t) == [vec |-> v, mat |-> m, text |-> t]

\* 0-based read and write of a C array kept as a TLA+ sequence
At(a, k) == a[k + 1]
Set(a, k, x) == [a EXCEPT ![k + 1] = x]

\* sets with a vector only, a one-column matrix only, both (the matrix
\* column holds the vector read backwards), or neither component
VecTables(h) ==
  {[vector |-> TRUE, matrix |-> FALSE, size2 |-> 0,
    rows |-> [k \in 1..h |-> MkRow(<<f[k]>>, <<>>, k)]] : f \in [1..h -> Keys]}
MatTables(h) ==
  {[vector |-> FALSE, matrix |-> TRUE, size2 |-> 1,
    rows |-> [k \in 1..h |-> MkRow(<<>>, <<f[k]>>, k)]] : f \in [1..h -> Keys]}
BothTables(h) ==
  {[vector |-> TRUE, matrix |-> TRUE, size2 |-> 1,
    rows |-> [k \in 1..h |-> MkRow(<<f[k]>>, <<f[h + 1 - k]>>, k)]] :
      f \in [1..h -> Keys]}
TextTables(h) ==
  {[vector |-> FALSE, matrix |-> FALSE, size2 |-> 0,
    rows |-> [k \in 1..h |-> MkRow(<<>>, <<>>, k)]]}
Tables ==
  UNION {VecTables(h) \cup MatTables(h) \cup BothTables(h) \cup TextTables(h) :
           h \in 0..MaxHeight}

\* the sortby and asc arguments a caller passes
Selectors == {-1, 0, 1}
Directions == {"a", "d", "D"}
\* the data argument: a NULL pointer or a pointer to the set
Pointers == {"NULL", "data"}

(* ---------------- gsl_sort_vector_index ---------------- *)
\* GSL's index heapsort (sort/indexsource.c), as called at lines 199 and 202.
\* d is the key vector, p the permutation being built (0-based entries).
\* It is not stable, and a NaN key makes every comparison false.
RECURSIVE downheap_loop(_, _, _, _, _)
downheap_loop(p, d, N, k, pki) ==
  IF k <= N \div 2
  THEN LET j0 == 2 * k
           j == IF j0 < N /\ Lt(At(d, At(p, j0)), At(d, At(p, j0 + 1)))
                THEN j0 + 1 ELSE j0
       IN IF ~Lt(At(d, pki), At(d, At(p, j)))
          THEN Set(p, k, pki)
          ELSE downheap_loop(Set(p, k, At(p, j)), d, N, j, pki)
  ELSE Set(p, k, pki)

downheap(p, d, N, k) == downheap_loop(p, d, N, k, At(p, k))

\* do { k--; downheap(p, d, N, k); } while (k > 0);  entered with k = N/2 + 1
RECURSIVE build_heap(_, _, _, _)
build_heap(p, d, N, k) ==
  LET k1 == k - 1
      p1 == downheap(p, d, N, k1)
  IN IF k1 > 0 THEN build_heap(p1, d, N, k1) ELSE p1

\* while (N > 0) { swap p[0], p[N]; N--; downheap(p, d, N, 0); }
RECURSIVE pop_heap(_, _, _)
pop_heap(p, d, N) ==
  IF N > 0
  THEN LET sw == Set(Set(p, 0, At(p, N)), N, At(p, 0))
       IN pop_heap(downheap(sw, d, N - 1, 0), d, N - 1)
  ELSE p

gsl_sort_vector_index(d) ==
  LET n == Len(d)
      id == [k \in 1..n |-> k - 1]
  IN IF n = 0 THEN id
     ELSE pop_heap(build_heap(id, d, n - 1, (n - 1) \div 2 + 1), d, n - 1)

(* ---------------- helpers of apop_data_sort ---------------- *)
\* the scan of find_min_unsorted resumed one past the given position
RECURSIVE find_min_unsorted_FromNext(_, _, _)
find_min_unsorted_FromNext(srt, h, min) ==
  IF min + 1 < h
  THEN IF At(srt, min + 1) = 0 THEN min + 1
       ELSE find_min_unsorted_FromNext(srt, h, min + 1)
  ELSE -1

\* the scan of find_min_unsorted stopping one index early
RECURSIVE find_min_unsorted_Short(_, _, _)
find_min_unsorted_Short(srt, h, min) ==
  IF min < h - 1
  THEN IF At(srt, min) = 0 THEN min ELSE find_min_unsorted_Short(srt, h, min + 1)
  ELSE -1

\* while (min<height) if (!sorted[min]) return min; else min++;  return -1;
RECURSIVE find_min_unsorted(_, _, _)
find_min_unsorted(srt, h, min) ==
  IF min < h
  THEN IF At(srt, min) = 0 THEN min ELSE find_min_unsorted(srt, h, min + 1)
  ELSE -1

\* the default resolved without looking at data->matrix
ResolveSortby_AnyVector(d, sb) == IF sb = 0 /\ d.vector THEN -1 ELSE sb

\* if (sortby==0 && !data->matrix && data->vector) sortby = -1;
ResolveSortby(d, sb) == IF sb = 0 /\ ~d.matrix /\ d.vector THEN -1 ELSE sb

\* asc=='d' || asc=='D'
IsDescending(a) == a = "d" \/ a = "D"

\* for (j=0; j<height/2; j++) swap perm[j], perm[height-1-j]
RECURSIVE ReverseFrom(_, _, _)
ReverseFrom(pm, h, j) ==
  IF j < h \div 2
  THEN ReverseFrom(Set(Set(pm, j, At(pm, h - 1 - j)), h - 1 - j, At(pm, j)), h, j + 1)
  ELSE pm
ReversePerm(pm, h) == ReverseFrom(pm, h, 0)

\* the component the selector names exists and, for a matrix column, the
\* column index is below size2; the code itself never tests this
SelectorInRange(d, sb) ==
  IF sb = -1 THEN d.vector ELSE d.matrix /\ sb >= 0 /\ sb < d.size2

\* (sortby==-1) ? data->vector->size : data->matrix->size1
HeightOf(d, sb) == Len(d.rows)

\* gsl_permutation_alloc(height) refuses a length of 0 through the GSL error
\* handler and hands back no permutation
PermAllocOK(h) == h > 0

\* the key vector: data->vector, or the view APOP_COL(data, sortby, v)
KeyOf(row, sb) == IF sb = -1 THEN row.vec[1] ELSE row.mat[sb + 1]
KeyVector(rows, sb) == [k \in 1..Len(rows) |-> KeyOf(rows[k], sb)]

\* the sorting permutation taken for its inverse (ranks instead of indices)
SortPerm_Inverse(rows, sb, a) ==
  LET n == Len(rows)
      p0 == gsl_sort_vector_index(KeyVector(rows, sb))
      pm == IF IsDescending(a) THEN ReversePerm(p0, n) ELSE p0
  IN [k \in 1..n |-> (CHOOSE j \in 1..n : pm[j] = k - 1) - 1]

\* the permutation after gsl_sort_vector_index and the optional reversal
SortPerm(rows, sb, a) ==
  LET pm == gsl_sort_vector_index(KeyVector(rows, sb))
  IN IF IsDescending(a) THEN ReversePerm(pm, Len(rows)) ELSE pm

\* Apop_data_row: the view of one row (vector entry, matrix row, text row)
Apop_data_row(rows, r) == At(rows, r)
\* apop_data_copy of a one-row view: a deep copy of every field
apop_data_copy(row) == MkRow(row.vec, row.mat, row.text)
\* apop_data_set_row: overwrite every field of row r
apop_data_set_row(rows, row, r) == Set(rows, r, MkRow(row.vec, row.mat, row.text))

\* the copy of lines 220-222 done the other way: row i is put at perm[i]
CopyRow_Backwards(rows, pm, k) ==
  apop_data_set_row(rows, Apop_data_row(rows, k), At(pm, k))

\* lines 221-222: copy from perm[i] to i
CopyRow(rows, pm, k) == apop_data_set_row(rows, Apop_data_row(rows, At(pm, k)), k)
\* the cycle closed from the view of row start instead of the saved copy
CloseCycle_FromView(rows, saved, k) ==
  apop_data_set_row(rows, Apop_data_row(rows, start), k)

\* line 226: the saved first row closes the cycle at i
CloseCycle(rows, saved, k) == apop_data_set_row(rows, saved, k)

\* line 223 with the index that was just written marked instead
MarkNext_Current(srt, pm, k) == Set(srt, k, At(srt, k) + 1)

\* line 223: sorted[perm[i]]++
MarkNext(srt, pm, k) == Set(srt, At(pm, k), At(srt, At(pm, k)) + 1)

\* line 227 without the free: the saved copy stays allocated
apop_data_free_Skipped(n) == n

\* line 227: apop_data_free(first_row_storage); n counts the row copies
\* that are allocated and not yet freed
apop_data_free(n) == n - 1

(* ---------------- apop_data_sort, step by step ---------------- *)
\* pc: "idle" before the first call, "find" at the top of while(1),
\* "cycle" at the test of the inner while, "done" after a return,
\* "aborted" when the process was ended (GSL error handler, NULL dereference),
\* "undefined" after an out-of-bounds read with the error handler off.
NoRows == <<>>

NoArg == [data |-> "none", sortby |-> 0]

SortInitIn(T) ==
  /\ data \in T
  /\ arg = NoArg /\ sortby = 0 /\ asc = "a" /\ height = 0
  /\ sorted = <<>> /\ perm = <<>> /\ p_alloc = FALSE
  /\ i = 0 /\ start = 0 /\ first_row_storage = NoRows
  /\ pc = "idle" /\ ret = "none" /\ before = data.rows
  /\ resort = FALSE /\ nalloc = 0
  /\ written = <<>> /\ stale = FALSE /\ live = 0

SortInit == SortInitIn(Tables)

\* the entry without the test of line 187: a NULL data is dereferenced
EntryOutcome_NoNullTest(ptr, d, sb) ==
  IF ptr = "NULL" THEN "undefined"
  ELSE LET r == ResolveSortby(d, sb)
       IN IF SelectorInRange(d, r) /\ PermAllocOK(HeightOf(d, r))
          THEN "sort" ELSE "undefined"

\* Which way a call leaves lines 185-203.  ptr is the data argument ("NULL"
\* or "data"), d the set it points to.
\*   "null":      Apop_stopif(!data, return NULL, ...) at line 187;
\*   "undefined": data->vector or data->matrix is dereferenced while NULL,
\*                APOP_COL is out of range, or gsl_permutation_alloc fails;
\*   "sort":      the permutation is built and the loop is entered.
EntryOutcome(ptr, d, sb) ==
  IF ptr = "NULL" THEN "null"
  ELSE LET r == ResolveSortby(d, sb)
       IN IF SelectorInRange(d, r) /\ PermAllocOK(HeightOf(d, r))
          THEN "sort" ELSE "undefined"

\* what every call sets on entry: the arguments and the history variables
Enter(ptr, sb, a, again) ==
  /\ arg' = [data |-> ptr, sortby |-> sb]
  /\ asc' = a /\ before' = data.rows /\ resort' = again
  /\ sortby' = IF ptr = "NULL" THEN sb ELSE ResolveSortby(data, sb)

\* line 187: Apop_stopif(!data, return NULL, ...)
CallNull(ptr, sb, a) ==
  /\ pc \in {"idle", "done"}
  /\ EntryOutcome(ptr, data, sb) = "null"
  /\ Enter(ptr, sb, a, FALSE)
  /\ ret' = "NULL" /\ pc' = "done" /\ nalloc' = 0
  /\ UNCHANGED <<data, height, sorted, perm, p_alloc, i, start, first_row_storage,
                 written, stale, live>>

\* lines 193-203 with a selector the table does not have, or a height of 0.
\* A NULL data->vector or data->matrix is dereferenced at line 193 and a
\* failed gsl_permutation_alloc at line 199 or 202: the process is ended.
\* A column index past size2 reaches APOP_COL at line 201 with the
\* permutation allocated: the GSL error handler ends the process or, when it
\* is turned off, memory outside the matrix is read.
CallUndefined(ptr, sb, a) ==
  /\ pc \in {"idle", "done"}
  /\ EntryOutcome(ptr, data, sb) = "undefined"
  /\ LET late == /\ ptr = "data" /\ data.matrix
                 /\ ResolveSortby(data, sb) >= data.size2
                 /\ PermAllocOK(Len(data.rows))
     IN /\ pc' \in (IF late THEN {"aborted", "undefined"} ELSE {"aborted"})
        /\ p_alloc' = late
        /\ nalloc' = IF late THEN 1 ELSE 0
  /\ Enter(ptr, sb, a, FALSE)
  /\ ret' = "none"
  /\ UNCHANGED <<data, height, sorted, perm, i, start, first_row_storage,
                 written, stale, live>>

\* lines 193-210: height, sorted[], the permutation and its reversal
SortEntry(ptr, sb, a, again) ==
  /\ EntryOutcome(ptr, data, sb) = "sort"
  /\ LET r == ResolveSortby(data, sb)
     IN /\ height' = HeightOf(data, r)
        /\ sorted' = [k \in 1..HeightOf(data, r) |-> 0]
        /\ written' = [k \in 1..HeightOf(data, r) |-> 0]
        /\ perm' = SortPerm(data.rows, r, a)
  /\ Enter(ptr, sb, a, again)
  /\ p_alloc' = TRUE /\ nalloc' = 1
  /\ i' = 0 /\ start' = 0 /\ first_row_storage' = NoRows
  /\ ret' = "none" /\ pc' = "find" /\ stale' = FALSE
  /\ UNCHANGED <<data, live>>

CallSort(ptr, sb, a) ==
  /\ pc = "idle"
  /\ SortEntry(ptr, sb, a, FALSE)

\* the caller sorts the returned set again with the same arguments
Resort ==
  /\ pc = "done" /\ ret = "data" /\ ~resort
  /\ SortEntry("data", arg.sortby, asc, TRUE)

\* lines 212-215: no unmarked index is left; free the permutation, return.
\* find_min_unsorted's -1 is stored in the size_t i and start and compares
\* equal to -1 at line 214; it is kept as -1 here.
LoopExit ==
  /\ pc = "find"
  /\ find_min_unsorted(sorted, height, start) = -1
  /\ i' = -1 /\ start' = -1
  /\ p_alloc' = FALSE /\ ret' = "data" /\ pc' = "done"
  /\ UNCHANGED <<data, arg, sortby, asc, height, sorted, perm,
                 first_row_storage, before, resort, nalloc, written, stale, live>>

\* lines 212-218: a new cycle starts at the smallest unmarked index
CycleBegin ==
  /\ pc = "find"
  /\ LET m == find_min_unsorted(sorted, height, start)
     IN /\ m # -1
        /\ i' = m /\ start' = m
        /\ first_row_storage' = <<apop_data_copy(Apop_data_row(data.rows, m))>>
        /\ sorted' = Set(sorted, m, At(sorted, m) + 1)
        /\ stale' = (stale \/ At(written, m) > 0)
  /\ nalloc' = nalloc + 1 /\ live' = live + 1 /\ pc' = "cycle"
  /\ UNCHANGED <<data, arg, sortby, asc, height, perm, p_alloc, ret, before, resort,
                 written>>

\* lines 219-225: one pass of the inner while
CycleStep ==
  /\ pc = "cycle"
  /\ At(perm, i) # start
  /\ data' = [data EXCEPT !.rows = CopyRow(data.rows, perm, i)]
  /\ sorted' = MarkNext(sorted, perm, i)
  /\ written' = Set(written, i, At(written, i) + 1)
  /\ stale' = (stale \/ At(written, At(perm, i)) > 0)
  /\ i' = At(perm, i)
  /\ UNCHANGED <<arg, sortby, asc, height, perm, p_alloc, start,
                 first_row_storage, pc, ret, before, resort, nalloc, live>>

\* lines 226-227: the inner while ended; write the saved row and free it
CycleClose ==
  /\ pc = "cycle"
  /\ At(perm, i) = start
  /\ data' = [data EXCEPT !.rows = CloseCycle(data.rows, first_row_storage[1], i)]
  /\ written' = Set(written, i, At(written, i) + 1)
  /\ first_row_storage' = NoRows /\ live' = apop_data_free(live)
  /\ pc' = "find"
  /\ UNCHANGED <<arg, sortby, asc, height, sorted, perm, p_alloc, i, start,
                 ret, before, resort, nalloc, stale>>

(* ---------------- apop_generalized_harmonic ---------------- *)
\* doubles of the harmonic sums: exact fractions <<numerator, denominator>>
\* in lowest terms; HNaN stands for GSL_NAN
HNaN == <<0, 0>>
One == <<1, 1>>
RECURSIVE GCD(_, _)
GCD(a, b) == IF b = 0 THEN a ELSE GCD(b, a % b)
Reduce(f) == LET g == GCD(f[1], f[2]) IN <<f[1] \div g, f[2] \div g>>
Add(a, b) == Reduce(<<a[1] * b[2] + b[1] * a[2], a[2] * b[2]>>)
RECURSIVE IntPow(_, _)
IntPow(n, e) == IF e = 0 THEN 1 ELSE n * IntPow(n, e - 1)
\* 1/pow(n, s)
InvPow(n, s) == IF s >= 0 THEN <<1, IntPow(n, s)>> ELSE <<IntPow(n, 0 - s), 1>>

\* the values of N and s the callers pass
Ns == (-1)..MaxN
Exps == {-1, 2}

\* the test of line 103 letting N = 0 through
BadN_Negative(N) == N < 0

\* line 103: Apop_stopif(N<=0, return GSL_NAN, ...)
BadN(N) == N <= 0

\* lines 109-111: the index of the first saved s equal to s, or count
RECURSIVE FindRow(_, _, _, _)
FindRow(es, cnt, s, k) ==
  IF k < cnt /\ At(es, k) # s THEN FindRow(es, cnt, s, k + 1) ELSE k

\* line 130 with the term of j instead of j+1
NextPartial_OffByOne(prev, j, s) == Add(prev, InvPow(j, s))

\* line 130: precalced[i][j] = precalced[i][j-1] + 1/pow((j+1),s)
NextPartial(prev, j, s) == Add(prev, InvPow(j + 1, s))

\* lines 129-130: for (j=old_len; j<N; j++), on a row cut to its first j cells
RECURSIVE Extend(_, _, _, _)
Extend(row, j, N, s) ==
  IF j < N THEN Extend(Append(row, NextPartial(At(row, j - 1), j, s)), j + 1, N, s)
  ELSE row

\* lines 127-131: realloc to N cells and fill cells old_len..N-1 when
\* N-1 >= old_len; the cells below old_len are kept
GrowRow(row, old_len, N, s) ==
  IF N - 1 >= old_len THEN Extend(SubSeq(row, 1, old_len), old_len, N, s) ELSE row

\* precalced[i][N-1]; a read outside the row has no defined value
ReadCell(row, k) == IF k + 1 \in DOMAIN row THEN row[k + 1] ELSE HNaN

\* the larger of two ints
Max(a, b) == IF a >= b THEN a ELSE b

HarmIdle ==
  /\ eses = <<>> /\ lengths = <<>> /\ count = 0 /\ precalced = <<>>
  /\ hN = 0 /\ hs = 1 /\ hret = HNaN /\ maxN = [e \in Exps |-> 0]
  /\ hwork = 0 /\ hcached = FALSE

\* one call apop_generalized_harmonic(N, s), lines 97-133.
\* hN, hs, hret: the arguments and the value returned by the latest call;
\* maxN[s]: the largest N a call for s has returned so far; hwork: the
\* number of passes of the loop of lines 129-130 in the call, which runs
\* only after the realloc of line 128; hcached: N was at most maxN[s] when
\* the call was made.
Harmonic(N, s) ==
  /\ hN' = N /\ hs' = s
  /\ IF BadN(N)
     THEN /\ hret' = HNaN
          /\ hwork' = 0 /\ hcached' = FALSE
          /\ UNCHANGED <<eses, lengths, count, precalced, maxN>>
     ELSE LET idx == FindRow(eses, count, s, 0)
              fresh == idx = count
              old_len == IF fresh THEN 1 ELSE At(lengths, idx)
              base == IF fresh THEN <<One>> ELSE At(precalced, idx)
              row == GrowRow(base, old_len, N, s)
          IN /\ count' = IF fresh THEN count + 1 ELSE count
             /\ eses' = IF fresh THEN Append(eses, s) ELSE eses
             /\ lengths' = IF fresh THEN Append(lengths, N) ELSE lengths
             /\ precalced' = IF fresh THEN Append(precalced, row)
                             ELSE Set(precalced, idx, row)
             /\ hret' = ReadCell(row, N - 1)
             /\ hwork' = IF N - 1 >= old_len THEN N - old_len ELSE 0
             /\ hcached' = (N <= maxN[s])
             /\ maxN' = [maxN EXCEPT ![s] = Max(@, N)]

(* ---------------- apop_text_paste ---------------- *)
\* A char* is <<>> when NULL and <<s>> when it points to the string s; a
\* string is a sequence of tokens <<kind, row, col>>.
NullPtr == <<>>
PtrTo(x) == <<x>>
StrOf(p) == IF p = NullPtr THEN <<>> ELSE p[1]
Token(kind) == <<kind, 0, 0>>
\* strings->text[r][c]: one token that names the element
TextAt(r, c) == << <<"cell", r, c>> >>
\* the between and between_cols arguments (between_cols defaults to between,
\* line 62; here the caller passes its own)
between == << Token("between") >>
between_cols == << Token("between_cols") >>

\* the apop_data sets with a text grid of size0 x size1 (strings->textsize)
TextGrids == {[size0 |-> r, size1 |-> c] : r \in 0..MaxText, c \in 0..MaxText}
Cells(g) == (0..(g.size0 - 1)) \X (0..(g.size1 - 1))
\* a prune function gives an int for every (row, col)
PruneFns(g) == [Cells(g) -> {0, 1}]

\* lines 10-16: append addme to *in; a NULL addme is skipped
apop_tack_on(in, addme) ==
  IF addme = NullPtr THEN in ELSE PtrTo(StrOf(in) \o StrOf(addme))

\* line 70: if (prune && !prune(strings, i, j, prune_parameter)) continue;
Skipped(pr, r, c) == pr # NullPtr /\ pr[1][<<r, c>>] = 0

\* lines 69-73: the loop over the columns of row r, from column c on
RECURSIVE PasteRow(_, _, _, _, _)
PasteRow(g, pr, r, c, oneline) ==
  IF c < g.size1
  THEN IF Skipped(pr, r, c) THEN PasteRow(g, pr, r, c + 1, oneline)
       ELSE LET t1 == apop_tack_on(oneline, PtrTo(TextAt(r, c)))
                t2 == IF c < g.size1 - 1 THEN apop_tack_on(t1, PtrTo(between_cols))
                      ELSE t1
            IN PasteRow(g, pr, r, c + 1, t2)
  ELSE oneline

\* lines 67-80: the loop over the rows from row r on; st holds out,
\* prior_line and oneline
RECURSIVE PasteRows(_, _, _, _)
PasteRows(g, pr, r, st) ==
  IF r < g.size0
  THEN LET oneline == PasteRow(g, pr, r, 0, NullPtr)
           o1 == apop_tack_on(st.out, st.prior_line)
           o2 == IF st.prior_line # NullPtr /\ oneline # NullPtr
                 THEN apop_tack_on(o1, PtrTo(between)) ELSE o1
       IN PasteRows(g, pr, r + 1,
                    [out |-> o2, prior_line |-> oneline, oneline |-> oneline])
  ELSE st

\* lines 66-84 for a strings pointer that is not NULL
PasteText(g, bef, aft, pr) ==
  LET st == PasteRows(g, pr, 0,
                      [out |-> bef, prior_line |-> NullPtr, oneline |-> NullPtr])
  IN apop_tack_on(apop_tack_on(st.out, st.oneline), aft)

\* line 67 reads strings->textsize[0]: a NULL strings is dereferenced
PasteOutcome(s) == IF s = NullPtr THEN "crashed" ELSE "returned"

TextIdle ==
  /\ strings = NullPtr /\ before_text = NullPtr /\ after_text = NullPtr
  /\ prune = NullPtr /\ tout = NullPtr /\ tpc = "idle"

TextInit ==
  /\ strings \in {NullPtr} \cup {PtrTo(g) : g \in TextGrids}
  /\ before_text \in {NullPtr, PtrTo(<<Token("before")>>)}
  /\ after_text \in {NullPtr, PtrTo(<<Token("after")>>)}
  /\ prune \in {NullPtr} \cup
       (IF strings = NullPtr THEN {} ELSE {PtrTo(f) : f \in PruneFns(strings[1])})
  /\ tout = NullPtr /\ tpc = "idle"

\* one call of apop_text_paste, lines 57-85
Paste ==
  /\ tpc = "idle"
  /\ tpc' = PasteOutcome(strings)
  /\ tout' = IF PasteOutcome(strings) = "returned"
             THEN PasteText(strings[1], before_text, after_text, prune)
             ELSE NullPtr
  /\ UNCHANGED <<strings, before_text, after_text, prune>>

(* ---------------- apop_matrix_rm_columns ---------------- *)
\* a gsl_matrix is the sequence of its rows; doubles are 1 and 2
Doubles == {1, 2}
Matrices(r, c) == [1..r -> [1..c -> Doubles]]
\* the matrices passed as in: two rows, up to MaxCols columns
InMatrices == UNION {Matrices(2, c) : c \in 1..MaxCols}
size1(m) == Len(m)
size2m(m) == IF Len(m) = 0 THEN 0 ELSE Len(m[1])

\* lines 315-317: ct counts the nonzero entries of use
RECURSIVE CountUsed(_, _)
CountUsed(use, k) ==
  IF k < Len(use) THEN (IF At(use, k) # 0 THEN 1 ELSE 0) + CountUsed(use, k + 1)
  ELSE 0

\* gsl_matrix_set_col(m, j, column k of src)
SetCol(m, j, src, k) == [r \in 1..Len(m) |-> Set(m[r], j, At(src[r], k))]

\* lines 319-325: every used column k of in is copied to column j of in
RECURSIVE Compact(_, _, _, _)
Compact(m, use, k, j) ==
  IF k < size2m(m)
  THEN IF At(use, k) # 0 THEN Compact(SetCol(m, j, m, k), use, k + 1, j + 1)
       ELSE Compact(m, use, k + 1, j)
  ELSE m

MatIdle ==
  /\ m_in = <<>> /\ m_use = <<>> /\ m_out = <<>> /\ mpc = "idle"
  /\ m_in0 = <<>>

\* use keeps at least one column
MatInit ==
  /\ m_in \in InMatrices
  /\ m_use \in {u \in [1..size2m(m_in) -> {0, 1}] : CountUsed(u, 0) >= 1}
  /\ m_out = <<>> /\ mpc = "idle"
  /\ m_in0 = m_in

\* one call of apop_matrix_rm_columns, lines 309-327.  out comes from
\* gsl_matrix_alloc (line 318) and no line writes it: its cells hold
\* whatever the allocation held.  m_in0 keeps the matrix as it was passed.
RmColumns ==
  /\ mpc = "idle"
  /\ m_out' \in Matrices(size1(m_in), CountUsed(m_use, 0))
  /\ m_in' = Compact(m_in, m_use, 0, 0)
  /\ mpc' = "returned"
  /\ UNCHANGED <<m_use, m_in0>>

(* ---------------- the specifications ---------------- *)
Init == SortInit /\ HarmIdle /\ TextIdle /\ MatIdle

Next ==
  \/ (\E ptr \in Pointers, sb \in Selectors, a \in Directions :
        CallNull(ptr, sb, a)) /\ UNCHANGED <<harmvars, textvars, matvars>>
  \/ (\E ptr \in Pointers, sb \in Selectors, a \in Directions :
        CallUndefined(ptr, sb, a)) /\ UNCHANGED <<harmvars, textvars, matvars>>
  \/ (\E ptr \in Pointers, sb \in Selectors, a \in Directions :
        CallSort(ptr, sb, a)) /\ UNCHANGED <<harmvars, textvars, matvars>>
  \/ Resort /\ UNCHANGED <<harmvars, textvars, matvars>>
  \/ LoopExit /\ UNCHANGED <<harmvars, textvars, matvars>>
  \/ CycleBegin /\ UNCHANGED <<harmvars, textvars, matvars>>
  \/ CycleStep /\ UNCHANGED <<harmvars, textvars, matvars>>
  \/ CycleClose /\ UNCHANGED <<harmvars, textvars, matvars>>

Spec == Init /\ [][Next]_vars

HInit == SortInitIn(TextTables(0)) /\ HarmIdle /\ TextIdle /\ MatIdle
HNext ==
  (\E N \in Ns, s \in Exps : Harmonic(N, s))
    /\ UNCHANGED <<sortvars, textvars, matvars>>
SpecH == HInit /\ [][HNext]_vars

TInit == SortInitIn(TextTables(0)) /\ HarmIdle /\ TextInit /\ MatIdle
TNext == Paste /\ UNCHANGED <<sortvars, harmvars, matvars>>
SpecT == TInit /\ [][TNext]_vars

MInit == SortInitIn(TextTables(0)) /\ HarmIdle /\ TextIdle /\ MatInit
MNext == RmColumns /\ UNCHANGED <<sortvars, harmvars, textvars>>
SpecM == MInit /\ [][MNext]_vars

\* The loop of lines 211-228 on its own: entered with any bijection perm on
\* 0..height-1 (gsl_permutation holds a bijection), nothing marked yet.
Bijections(h) ==
  {p \in [1..h -> 0..(h - 1)] : \A a, b \in 1..h : p[a] = p[b] => a = b}

LoopTables(h) == TextTables(h) \cup MatTables(h)

LoopInit ==
  /\ \E h \in 0..MaxHeight :
       /\ data \in LoopTables(h) /\ perm \in Bijections(h)
       /\ height = h
       /\ sorted = [k \in 1..h |-> 0] /\ written = [k \in 1..h |-> 0]
  /\ arg = [data |-> "data", sortby |-> 0] /\ sortby = 0 /\ asc = "a"
  /\ p_alloc = TRUE /\ nalloc = 1
  /\ i = 0 /\ start = 0 /\ first_row_storage = NoRows
  /\ pc = "find" /\ ret = "none" /\ before = data.rows
  /\ resort = FALSE /\ stale = FALSE /\ live = 0

LInit == LoopInit /\ HarmIdle /\ TextIdle /\ MatIdle
LNext ==
  \/ LoopExit /\ UNCHANGED <<harmvars, textvars, matvars>>
  \/ CycleBegin /\ UNCHANGED <<harmvars, textvars, matvars>>
  \/ CycleStep /\ UNCHANGED <<harmvars, textvars, matvars>>
  \/ CycleClose /\ UNCHANGED <<harmvars, textvars, matvars>>
SpecLoop == LInit /\ [][LNext]_vars

\* the loop runs on: no step of it waits for anything outside the function
SpecLoopFair == SpecLoop /\ WF_vars(LNext)

(* ---------------- properties of apop_data_sort ---------------- *)
\* apop_data_sort has returned the set it was given
Sorted == pc = "done" /\ arg.data = "data" /\ ret = "data"
OutKey(k) == KeyOf(data.rows[k], sortby)
InKey(k) == KeyOf(before[k], sortby)
\* how often a row occurs in a sequence of rows
Occurs(row, rows) == Cardinality({k \in 1..Len(rows) : rows[k] = row})
\* the index at which the row with text t lies after the call
OutPos(t) == CHOOSE k \in 1..Len(data.rows) : data.rows[k].text = t
\* the keys the call sorted by are pairwise different and none is NaN
DistinctKeys ==
  /\ \A k \in 1..Len(before) : ~isnan(InKey(k))
  /\ \A k, l \in 1..Len(before) : k # l => InKey(k) # InKey(l)
\* the rows of tbl laid out as the permutation pm orders them
Permuted(rows, pm) == [k \in 1..Len(rows) |-> rows[At(pm, k - 1) + 1]]

\* C1: after apop_data_sort returns on a non-null table, adjacent output rows
\* whose keys are both non-NaN are in order: key(i) <= key(i+1) ascending,
\* key(i) >= key(i+1) for 'd' and 'D', for the vector and the column selector.
C1_AdjacentOrdered ==
  Sorted =>
    \A k \in 1..(Len(data.rows) - 1) :
      (~isnan(OutKey(k)) /\ ~isnan(OutKey(k + 1))) =>
        IF IsDescending(asc) THEN Ge(OutKey(k), OutKey(k + 1))
        ELSE Le(OutKey(k), OutKey(k + 1))

\* C2: apop_data_sort only permutes rows: the row count is unchanged and every
\* row (vector entry, matrix row, text row) occurs after the sort exactly as
\* often as before it.
C2_RowsPermuted ==
  Sorted =>
    /\ Len(data.rows) = Len(before)
    /\ \A k \in 1..Len(before) :
         Occurs(before[k], data.rows) = Occurs(before[k], before)
    /\ \A k \in 1..Len(data.rows) :
         Occurs(data.rows[k], before) = Occurs(data.rows[k], data.rows)

\* a sort that moved at least one row has returned
C2_Witness == Sorted /\ Len(before) >= 2 /\ data.rows # before

\* C3: a call with a NULL table returns NULL, writes no row of the set and
\* allocates neither a permutation, nor a marker array, nor a scratch row.
C3_NullReturnsNull ==
  [][arg'.data = "NULL" =>
       /\ pc' = "done" /\ ret' = "NULL"
       /\ ~p_alloc' /\ first_row_storage' = NoRows /\ nalloc' = 0
       /\ UNCHANGED <<data, height, sorted, perm, p_alloc, i, start,
                      first_row_storage>>]_vars

\* a NULL call has returned on a set that holds rows
C3_Witness == pc = "done" /\ arg.data = "NULL" /\ ret = "NULL" /\ Len(data.rows) >= 2

\* C4: with the default selector 0, a set with a vector and no matrix is sorted
\* by its vector (the selector resolves to -1); a set with a matrix is sorted
\* by matrix column 0, with or without a vector.
C4_DefaultSelector ==
  (Sorted /\ arg.sortby = 0) =>
    /\ (data.vector /\ ~data.matrix) =>
         sortby = -1 /\ data.rows = Permuted(before, SortPerm(before, -1, asc))
    /\ data.matrix =>
         sortby = 0 /\ data.rows = Permuted(before, SortPerm(before, 0, asc))

\* a default-selector sort of a set with both components, whose vector order
\* and column-0 order differ, has returned
C4_Witness ==
  /\ Sorted /\ arg.sortby = 0 /\ data.vector /\ data.matrix
  /\ SortPerm(before, -1, asc) # SortPerm(before, 0, asc)

C6_NaNOrderKept ==
  Sorted =>
    \A x, y \in 1..Len(before) :
      (x < y /\ isnan(InKey(x)) /\ isnan(InKey(y))) =>
        OutPos(before[x].text) < OutPos(before[y].text)

\* C7: a sort whose selector names no column of the set returns NULL and
\* writes no row.
C7_OutOfRangeIsInvalidArgument ==
  (pc \in {"done", "aborted", "undefined"} /\ arg.data = "data"
     /\ ~SelectorInRange(data, ResolveSortby(data, arg.sortby))) =>
    (pc = "done" /\ ret = "NULL" /\ data.rows = before)

\* C14: when the loop ends, row i of the table holds what row perm[i] held
\* before the loop started, for every i and every bijection perm.
C14_LoopAppliesPerm ==
  (pc = "done" /\ ret = "data") =>
     \A k \in 0..(height - 1) :
        Apop_data_row(data.rows, k) = Apop_data_row(before, At(perm, k))

\* the loop has ended after one cycle through all of three or more rows
C14_Witness ==
  /\ pc = "done" /\ ret = "data" /\ height >= 3 /\ nalloc = 2
  /\ data.rows # before

AllMarked == \A k \in 0..(height - 1) : At(sorted, k) # 0

\* C15: the loop terminates for every height and every permutation: each
\* walk along a cycle comes back to its start, the outer loop ends, and when
\* it has ended every row index is marked.
C15_LoopTerminates ==
  /\ (pc = "cycle") ~> (pc = "find")
  /\ <>(pc = "done")
  /\ [](pc = "done" => AllMarked)

\* the loop has ended after walking two or more cycles
C15_Witness == pc = "done" /\ ret = "data" /\ AllMarked /\ nalloc >= 3

\* C16: whenever find_min_unsorted is called with the previous start as the
\* scan position, every index below that position is marked; the index it
\* gives is the smallest unmarked index of the whole table (or none is left),
\* and each start after the first is larger than the one before.
C16_ResumedScanSound ==
  [][pc = "find" =>
       /\ \A k \in 0..(start - 1) : At(sorted, k) # 0
       /\ pc' = "cycle" =>
            /\ At(sorted, start') = 0
            /\ \A k \in 0..(start' - 1) : At(sorted, k) # 0
            /\ nalloc > 1 => start' > start
       /\ pc' = "done" => AllMarked]_vars

\* a second cycle has started past an index the first cycle had marked
C16_Witness == pc = "cycle" /\ nalloc = 3 /\ start >= 2

\* C17: at every point of a call at most one scratch row copy is allocated,
\* and when the function has returned (after a sort or for a NULL table) no
\* scratch row and no permutation of the call is still allocated.
C17_ScratchReleased ==
  /\ live <= 1
  /\ pc = "done" => /\ live = 0 /\ first_row_storage = NoRows
                    /\ ~p_alloc

\* a later cycle holds its scratch row after an earlier one was freed
C17_Witness == pc = "cycle" /\ live = 1 /\ nalloc >= 3 /\ p_alloc

RECURSIVE SumFrom(_, _)
SumFrom(a, k) == IF k > Len(a) THEN 0 ELSE a[k] + SumFrom(a, k + 1)
RowWrites == SumFrom(written, 1)

\* C18: during the loop no row index is marked more than once and no row
\* slot is written more than once, no row is read as a copy source after its
\* slot was written, and when the loop has ended every index was marked once
\* and every slot written once: height row writes in all.
C18_MarkedAndWrittenOnce ==
  /\ \A k \in 0..(height - 1) : At(sorted, k) <= 1 /\ At(written, k) <= 1
  /\ ~stale
  /\ (pc = "done" /\ ret = "data") =>
       /\ \A k \in 0..(height - 1) : At(sorted, k) = 1 /\ At(written, k) = 1
       /\ RowWrites = height

\* the loop has ended on a permutation with a fixed point and a longer cycle
C18_Witness ==
  /\ pc = "done" /\ ret = "data" /\ RowWrites = height
  /\ \E k \in 0..(height - 1) : At(perm, k) = k
  /\ \E k \in 0..(height - 1) : At(perm, k) # k

(* ---------------- properties of apop_generalized_harmonic ---------------- *)
\* the sum over n = 1..N of 1/n^s
RECURSIVE HarmonicSum(_, _)
HarmonicSum(N, s) ==
  IF N = 1 THEN InvPow(1, s) ELSE Add(HarmonicSum(N - 1, s), InvPow(N, s))

\* C8: whatever calls came before, a call with N >= 1 and exponent s returns
\* the sum over n = 1..N of 1/n^s.
C8_ReturnsSum == hN >= 1 => hret = HarmonicSum(hN, hs)

\* a call read a cell of a row that an earlier, larger call for the same s had
\* grown past the length recorded for it
C8_Witness ==
  /\ hN >= 2 /\ hcached /\ hwork > 0
  /\ hret = HarmonicSum(hN, hs) /\ count = Cardinality(Exps)

\* C9: once a call (N, s) has returned, a later call with the same s and an
\* N' <= N writes no cell of the saved row and does not resize it, also when
\* N was larger than the N of the first call for s.
C9_LookupOnly == hcached => hwork = 0

\* C10: a call with N <= 0 returns NaN and leaves count, eses, lengths and
\* precalced as they were.
C10_BadNUnchanged ==
  [][hN' <= 0 => (hret' = HNaN /\ UNCHANGED <<count, eses, lengths, precalced>>)]_vars

\* a call with N <= 0 has returned NaN while rows were saved
C10_Witness == hN <= 0 /\ hret = HNaN /\ count > 0

(* ---------------- properties of apop_text_paste ---------------- *)
\* the strings argument is NULL or its grid has no element
NoText == strings = NullPtr \/ Cells(strings[1]) = {}
\* the token occurs in the string
Appears(tok, str) == \E k \in 1..Len(str) : str[k] = tok

\* C11: with a NULL strings table, or one without text, the call completes and
\* returns the before text followed by the after text and nothing else.
C11_NoTextBeforeAfter ==
  (tpc # "idle" /\ NoText) =>
    (tpc = "returned" /\ StrOf(tout) = StrOf(before_text) \o StrOf(after_text))

\* C12: an element for which prune returns nonzero is left out of the returned
\* string and an element for which prune returns zero is in it.
C12_PruneLeavesOut ==
  (tpc = "returned" /\ prune # NullPtr) =>
    \A rc \in Cells(strings[1]) :
      Appears(<<"cell", rc[1], rc[2]>>, StrOf(tout)) <=> (prune[1][rc] = 0)

(* ---------------- properties of apop_matrix_rm_columns ---------------- *)
\* the 0-based indices of the columns with use[k] != 0, in their order
RECURSIVE KeptFrom(_, _)
KeptFrom(use, k) ==
  IF k < Len(use)
  THEN (IF At(use, k) # 0 THEN <<k>> ELSE <<>>) \o KeptFrom(use, k + 1)
  ELSE <<>>

\* C13: the returned matrix has the rows of in and, in their order, exactly
\* the columns k of in with use[k] != 0, entry by entry.
C13_KeepsUsedColumns ==
  mpc = "returned" =>
    LET kept == KeptFrom(m_use, 0)
    IN /\ Len(m_out) = Len(m_in0)
       /\ \A r \in 1..Len(m_out) :
            /\ Len(m_out[r]) = Len(kept)
            /\ \A c \in 1..Len(kept) : m_out[r][c] = At(m_in0[r], kept[c])

====
